---- MODULE Spec2Model ----
(***************************************************************************)
(* A model of the TourOverlay component of react-native-spotlight-tour     *)
(* (src/src/index.ts): the cut-out geometry, the tooltip placement, the    *)
(* backdrop handler, the move-in effect with its deferred callback, and    *)
(* hideTip().                                                              *)
(*                                                                         *)
(* Numbers.  Lengths given to the component (spot, borderWidth, tooltip    *)
(* layout, viewport width) are whole dp.  Every derived length is kept as  *)
(* an integer count of 1/Unit dp, so that /2 and *1.15 are exact; Round    *)
(* is Math.round (nearest integer, ties towards +infinity).  Within the    *)
(* bounds used here no value handed to Math.round lies on a tie that       *)
(* depends on the 1.15 factor, so the exact arithmetic and the IEEE        *)
(* doubles of the program round alike.                                     *)
(***************************************************************************)
EXTENDS Integers, Sequences, FiniteSets, TLC

VARIABLES
    status,         \* tour: "IDLE" | "RUNNING" | "STOPPED"
    current,        \* tour: <<>> (undefined) or <<index>>
    spot,           \* tour: <<>> (undefined) or <<rectangle>>
    seq,            \* tour: phase of the transition sequencer
    cont,           \* prop shouldContinueOnBackdropPress
    vw,             \* vwDP(100), the viewport width
    mounted,        \* the overlay's hooks hold state (its last render was not null)
    tourStep,       \* useState(steps[current])
    tipStyle,       \* useState<StyleProp<ViewStyle>>(): <<>> or <<style>>
    geom,           \* r, cx, cy, rect* of the last render: <<>> or <<record>>
    effectDue,      \* the [spot, current] effect of the last commit has not run yet
    timers,         \* the setTimeout callbacks queued by the effect, oldest first
    anim,           \* the animation that holds the Animated values
    hide,           \* the promise of the last hideTip() call
    layoutDue,      \* a layout callback of the tooltip is on its way
    laidSize,       \* the tooltip size last reported by onLayout: <<>> or <<size>>
    event           \* what the last handler that ran called

vars == <<status, current, spot, seq, cont, vw, mounted, tourStep, tipStyle, geom,
          effectDue, timers, anim, hide, layoutDue, laidSize, event>>

(***************************************************************************)
(* Bounds of the model.                                                    *)
(***************************************************************************)
MaxCoord == 1       \* spot.x, spot.y range over 0..MaxCoord
MaxSide == 3        \* spot.width, spot.height range over 0..MaxSide
MaxBorder == 1      \* borderWidth ranges over 0..MaxBorder
MaxRadius == 1      \* horizontalRadius, verticalRadius range over 0..MaxRadius
MaxTip == 3         \* tooltip width and height range over 1..MaxTip
NumSteps == 3       \* steps.length
MaxTimers == 2      \* deferred callbacks that may be queued at once

None == <<>>
Some(v) == <<v>>
Max(a, b) == IF a >= b THEN a ELSE b
Abs(a) == IF a >= 0 THEN a ELSE 0 - a

\* One dp is Unit parts: halves and hundredths are both whole numbers of parts.
Unit == 2 * 100
S(v) == Unit * v

\* Math.round on a length in parts: the nearest whole dp, ties upwards.
Round(v) == (v + (Unit \div 2)) \div Unit

Rect(x, y, w, h) == [x |-> x, y |-> y, width |-> w, height |-> h]
Size(w, h) == [width |-> w, height |-> h]

\* The spot and tooltip of the specification's worked example (section 8).
ExampleSpot == Rect(100, 200, 50, 50)
ExampleTip == Size(120, 40)

Spots ==
    { Rect(x, y, w, h) : x \in 0..MaxCoord, y \in 0..MaxCoord,
                         w \in 0..MaxSide, h \in 0..MaxSide } \cup {ExampleSpot}
TipSizes == { Size(w, h) : w \in 1..MaxTip, h \in 1..MaxTip } \cup {ExampleTip}
Widths == {MaxTip + 2, 360}

Positions == {"TOP", "BOTTOM", "LEFT", "RIGHT"}
Shapes == {"SPOTLIGHT", "RECTANGLE", "undefined"}
Aligns == {"SPOT", "CENTER", "undefined"}
Motions == {"SLIDING", "FADING", "undefined"}
\* shapeProperties: each field is <<>> (not given) or <<number>>.
ShapeProps(b, h, v) == [borderWidth |-> b, horizontalRadius |-> h, verticalRadius |-> v]
Opt(set) == {None} \cup { Some(n) : n \in set }

Step(p, s, a, m, sp, id) ==
    [position |-> p, shape |-> s, alignTo |-> a, motion |-> m,
     shapeProperties |-> sp, render |-> id]

(***************************************************************************)
(* The body of the component: lines 62-78.                                 *)
(***************************************************************************)
shapeProperties == ShapeProps(Some(0), Some(0), Some(0))

\* A destructuring default: `name = d`.
Default(given, d) == IF given = None THEN d ELSE given[1]

ShapeOf(step) == IF step.shape = "undefined" THEN "SPOTLIGHT" ELSE step.shape
MotionOf(step) == IF step.motion = "undefined" THEN "SLIDING" ELSE step.motion
AlignOf(step) == IF step.alignTo = "undefined" THEN "SPOT" ELSE step.alignTo
PropsOf(step) ==
    LET given == IF step.shapeProperties = None THEN shapeProperties
                 ELSE step.shapeProperties[1]
    IN  [borderWidth |-> Default(given.borderWidth, 0),
         horizontalRadius |-> Default(given.horizontalRadius, 0),
         verticalRadius |-> Default(given.verticalRadius, 0)]

\* (a radius without the 1.15 margin)
RNoMargin(sp) == S(Max(sp.width, sp.height)) \div 2
R(sp) == ((S(Max(sp.width, sp.height)) \div 2) * 115) \div 100
Cx(sp) == S(sp.x) + (S(sp.width) \div 2)
Cy(sp) == S(sp.y) + (S(sp.height) \div 2)

RectWidth(sp, step) == S(sp.width) + 2 * S(PropsOf(step).borderWidth)
RectHeight(sp, step) == S(sp.height) + 2 * S(PropsOf(step).borderWidth)
\* (a rectangle whose x ignores the border)
RectXNoBorder(sp, step) == S(sp.x)
RectX(sp, step) == S(sp.x) - S(PropsOf(step).borderWidth)
RectY(sp, step) == S(sp.y) - S(PropsOf(step).borderWidth)

\* What one evaluation of the body computes for the mask.
CutOut(sp, step) ==
    [shape |-> ShapeOf(step), motion |-> MotionOf(step),
     r |-> R(sp), cx |-> Cx(sp), cy |-> Cy(sp),
     rectWidth |-> RectWidth(sp, step), rectHeight |-> RectHeight(sp, step),
     rectX |-> RectX(sp, step), rectY |-> RectY(sp, step),
     rx |-> PropsOf(step).horizontalRadius, ry |-> PropsOf(step).verticalRadius]

(***************************************************************************)
(* Tooltip placement: lines 103-185.                                       *)
(***************************************************************************)
Style(l, t, side, m, u) ==
    [left |-> l, top |-> t, marginSide |-> side, margin |-> m, marginUnit |-> u]

\* (a TOP row that forgets the tooltip's height)
SpotlightTopNoTip(sp, step, tip) ==
    CASE step.position = "BOTTOM" -> Round(Cy(sp) + R(sp))
      [] step.position = "TOP" -> Round(Cy(sp) - R(sp))
      [] OTHER -> Round(Cy(sp) - (S(tip.height) \div 2))
SpotlightTop(sp, step, tip) ==
    CASE step.position = "BOTTOM" -> Round(Cy(sp) + R(sp))
      [] step.position = "TOP" -> Round(Cy(sp) - R(sp) - S(tip.height))
      [] OTHER -> Round(Cy(sp) - (S(tip.height) \div 2))

SpotlightLeft(sp, step, tip, W) ==
    CASE step.position \in {"BOTTOM", "TOP"} ->
            IF AlignOf(step) = "SPOT"
            THEN Round(Cx(sp) - (S(tip.width) \div 2))
            ELSE Round((S(W) - S(tip.width)) \div 2)
      [] step.position = "LEFT" -> Round(Cx(sp) - R(sp) - S(tip.width))
      [] OTHER -> Round(Cx(sp) + R(sp))

MarginSide(step) ==
    CASE step.position = "BOTTOM" -> "Top"
      [] step.position = "TOP" -> "Bottom"
      [] step.position = "LEFT" -> "Right"
      [] OTHER -> "Left"

getSpotlightTipStyles(sp, step, tip, W) ==
    Style(SpotlightLeft(sp, step, tip, W),
          SpotlightTop(sp, step, tip),
          MarginSide(step), 2, "%")

tipMargin == 10

RectCenterX(sp, step) == Round(RectX(sp, step) + (RectWidth(sp, step) \div 2))
RectCenterY(sp, step) == Round(RectY(sp, step) + (RectHeight(sp, step) \div 2))

RectangleTop(sp, step, tip) ==
    CASE step.position = "BOTTOM" -> Round(RectY(sp, step) + RectHeight(sp, step))
      [] step.position = "TOP" ->
            Round(RectY(sp, step) - S(tip.height) - S(tipMargin))
      [] OTHER -> Round(S(RectCenterY(sp, step)) - (S(tip.height) \div 2))

RectangleLeft(sp, step, tip, W) ==
    CASE step.position \in {"BOTTOM", "TOP"} ->
            IF AlignOf(step) = "SPOT"
            THEN Round(S(RectCenterX(sp, step)) - (S(tip.width) \div 2))
            ELSE Round((S(W) - S(tip.width)) \div 2)
      [] step.position = "LEFT" -> Round(RectX(sp, step) - S(tip.width))
      [] OTHER -> Round(RectX(sp, step) + RectWidth(sp, step))

getRectangleTipStyles(sp, step, tip, W) ==
    Style(RectangleLeft(sp, step, tip, W), RectangleTop(sp, step, tip),
          MarginSide(step), tipMargin, "dp")

measureTip(sp, step, tip, W) ==
    IF ShapeOf(step) = "SPOTLIGHT"
    THEN getSpotlightTipStyles(sp, step, tip, W)
    ELSE getRectangleTipStyles(sp, step, tip, W)

(***************************************************************************)
(* The tour: its steps and the target each step is attached to.            *)
(***************************************************************************)
Pick(seqn, i) == seqn[(i % Len(seqn)) + 1]

Steps(i) ==
    Step(Pick(<<"BOTTOM", "LEFT", "TOP", "RIGHT">>, i),
         Pick(<<"undefined", "RECTANGLE", "SPOTLIGHT">>, i),
         Pick(<<"undefined", "CENTER", "SPOT">>, i),
         Pick(<<"undefined", "FADING">>, i),
         IF i % 2 = 0 THEN None ELSE Some(ShapeProps(Some(1 + (i % 2)), Some(i % 3), None)),
         i)

\* The rectangle the target of step i measures to, and the size its tooltip renders at.
Target(i) == Rect(10 * (i + 1), 20 * (i + 1), 5 + 2 * i, 4 + 3 * (i % 2))
TipSizeOf(step) == Size(6 + 2 * (step.render % 3), 3 + (step.render % 2))

Last == NumSteps - 1

(***************************************************************************)
(* The overlay's hook state as one record, and the steps React takes on it.*)
(***************************************************************************)
O ==
    [mounted |-> mounted, tourStep |-> tourStep, tipStyle |-> tipStyle, geom |-> geom,
     effectDue |-> effectDue, timers |-> timers, anim |-> anim, hide |-> hide,
     layoutDue |-> layoutDue, laidSize |-> laidSize]

Apply(o) ==
    /\ mounted' = o.mounted
    /\ tourStep' = o.tourStep
    /\ tipStyle' = o.tipStyle
    /\ geom' = o.geom
    /\ effectDue' = o.effectDue
    /\ timers' = o.timers
    /\ anim' = o.anim
    /\ hide' = o.hide
    /\ layoutDue' = o.layoutDue
    /\ laidSize' = o.laidSize

NoAnim == [kind |-> "none", to |-> None]
NoHide == [pending |-> FALSE, outcome |-> "none", finished |-> FALSE, cause |-> "none"]

\* (a completion callback that resolves whatever the animation reports)
hideTipCallbackAlways(finished) == "resolved"
\* lines 240-243: ({ finished }) => finished ? resolve() : reject()
hideTipCallback(finished) == IF finished THEN "resolved" ELSE "rejected"

Settle(finished, cause) ==
    [pending |-> FALSE, outcome |-> hideTipCallback(finished),
     finished |-> finished, cause |-> cause]

\* Animated ends the animation that holds the values, unfinished: a fade-out
\* started by hideTip() reports { finished: false } to its callback.
StopAnim(o, cause) ==
    IF o.anim.kind = "hide"
    THEN [o EXCEPT !.anim = NoAnim, !.hide = Settle(FALSE, cause)]
    ELSE [o EXCEPT !.anim = NoAnim]

\* lines 232-246: hideTip() starts a timing animation on componentOpacity,
\* which takes the value over from the animation that held it.
hideTip(o) ==
    [StopAnim(o, "superseded") EXCEPT
        !.anim = [kind |-> "hide", to |-> None],
        !.hide = [@ EXCEPT !.pending = TRUE]]

\* lines 187-230: the effect on [spot, current], run with the props c, s of
\* the render that scheduled it.  moveIn.stop() acts on the animation just
\* built, which never started; there is no cleanup.
Effect(o, c, s) ==
    LET step == Steps(c[1]) IN
    [o EXCEPT !.effectDue = FALSE,
              !.tourStep = Some(step),
              !.geom = Some(CutOut(s[1], step)),
              !.timers = Append(@, [to |-> o.geom[1], orphan |-> FALSE]),
              !.layoutDue = @ \/ TipSizeOf(step) # TipSizeOf(o.tourStep[1])]

\* React runs a pending passive effect before it renders again.
Flush(o, c, s) == IF o.effectDue THEN Effect(o, c, s) ELSE o

\* lines 51-53: a render that returns null before any hook: the hooks' state
\* is dropped, the views unmount and their Animated values are detached.
Unmount(o) ==
    IF ~o.mounted THEN o
    ELSE [StopAnim(o, "stop") EXCEPT
            !.mounted = FALSE, !.tourStep = None, !.tipStyle = None, !.geom = None,
            !.effectDue = FALSE, !.layoutDue = FALSE, !.laidSize = None,
            !.timers = [i \in DOMAIN @ |-> [@[i] EXCEPT !.orphan = TRUE]]]

\* lines 55-60: the first render with hooks.
Mount(o, c, s) ==
    [o EXCEPT !.mounted = TRUE, !.tourStep = Some(Steps(c[1])), !.tipStyle = None,
              !.geom = Some(CutOut(s[1], Steps(c[1]))), !.effectDue = TRUE,
              !.layoutDue = TRUE, !.laidSize = None, !.anim = NoAnim]

\* One render of the component with props c, s; changed: [spot, current] differ
\* from those of the render before.
Render(o, c, s, changed) ==
    IF c = None \/ s = None THEN Unmount(o)
    ELSE IF ~o.mounted THEN Mount(o, c, s)
    ELSE [o EXCEPT !.geom = Some(CutOut(s[1], o.tourStep[1])),
                   !.effectDue = changed]

\* The tour's props change from (current, spot) to (c, s).
Rerender(o, c, s) == Render(Flush(o, current, spot), c, s, TRUE)

(***************************************************************************)
(* The tour context the overlay reads (current, spot, next, previous,      *)
(* stop).  Its provider is not part of src/; it follows sections 4.1 and   *)
(* 4.4 of the specification.                                               *)
(***************************************************************************)
Ev(name, called) == [name |-> name, called |-> called]

Room == Len(timers) + (IF effectDue THEN 1 ELSE 0) < MaxTimers

Navigate(i) ==
    /\ status' = status
    /\ current' = Some(i)
    /\ spot' = spot
    /\ seq' = IF mounted THEN "AWAITING_HIDE" ELSE "AWAITING_MEASUREMENT"
    /\ Apply(Rerender(IF mounted THEN hideTip(O) ELSE O, Some(i), spot))

TourStop ==
    /\ status' = "STOPPED"
    /\ current' = None
    /\ spot' = None
    /\ seq' = "CANCELLED"
    /\ Apply(Rerender(O, None, None))

TourNext == IF current = Some(Last) THEN TourStop ELSE Navigate(current[1] + 1)

start(i) ==
    /\ status # "RUNNING"
    /\ status' = "RUNNING"
    /\ current' = Some(i)
    /\ spot' = None
    /\ seq' = "AWAITING_MEASUREMENT"
    /\ Apply(Rerender(O, Some(i), None))
    /\ event' = Ev("start", "none")
    /\ UNCHANGED <<cont, vw>>

next ==
    /\ status = "RUNNING"
    /\ Room
    /\ TourNext
    /\ event' = Ev("next", "none")
    /\ UNCHANGED <<cont, vw>>

previous ==
    /\ status = "RUNNING"
    /\ Room
    /\ current # Some(0)
    /\ Navigate(current[1] - 1)
    /\ event' = Ev("previous", "none")
    /\ UNCHANGED <<cont, vw>>

stop ==
    /\ status = "RUNNING"
    /\ TourStop
    /\ event' = Ev("stop", "none")
    /\ UNCHANGED <<cont, vw>>

\* The sequencer goes on to the measurement once the hide is seen completed.
HideSettled ==
    /\ seq = "AWAITING_HIDE"
    /\ ~hide.pending
    /\ hide.outcome = "resolved"
    /\ seq' = "AWAITING_MEASUREMENT"
    /\ event' = Ev("hidden", "none")
    /\ UNCHANGED <<status, current, spot, cont, vw, mounted, tourStep, tipStyle, geom,
                   effectDue, timers, anim, hide, layoutDue, laidSize>>

\* The measurement of the current step's target resolves: spot is replaced.
MeasureResolve ==
    /\ status = "RUNNING"
    /\ seq = "AWAITING_MEASUREMENT"
    /\ Room
    /\ spot' = Some(Target(current[1]))
    /\ seq' = "SETTLED"
    /\ Apply(Rerender(O, current, Some(Target(current[1]))))
    /\ event' = Ev("measured", "none")
    /\ UNCHANGED <<status, current, cont, vw>>

(***************************************************************************)
(* The overlay's handlers.                                                 *)
(***************************************************************************)
\* (a handler that does not look at shouldContinueOnBackdropPress)
backdropPressHandlerAlways(shouldContinue, isLastStep) ==
    IF isLastStep THEN "stop" ELSE "next"
\* lines 95-101
backdropPressHandler(shouldContinue, isLastStep) ==
    IF ~shouldContinue THEN "none"
    ELSE IF isLastStep THEN "stop" ELSE "next"

\* line 255: a tap on the backdrop of the rendered overlay.
BackdropPress ==
    /\ mounted
    /\ Room
    /\ LET call == backdropPressHandler(cont, current = Some(Last)) IN
       /\ CASE call = "stop" -> TourStop
            [] call = "next" -> TourNext
            [] OTHER -> UNCHANGED <<status, current, spot, seq, mounted, tourStep,
                                    tipStyle, geom, effectDue, timers, anim, hide,
                                    layoutDue, laidSize>>
       /\ event' = Ev("tap", call)
    /\ UNCHANGED <<cont, vw>>

\* React runs the pending effect of the last commit.
RunEffect ==
    /\ effectDue
    /\ Apply(Effect(O, current, spot))
    /\ event' = Ev("effect", "none")
    /\ UNCHANGED <<status, current, spot, seq, cont, vw>>

\* lines 178-185 and 281: the tooltip reports its layout; measureTip is the one
\* of the last render.  setTipStyle renders again.
measureTipHandler(o, size) ==
    LET done == [o EXCEPT !.tipStyle = Some(measureTip(spot[1], o.tourStep[1], size, vw)),
                          !.layoutDue = FALSE,
                          !.laidSize = Some(size)]
    IN  Render(Flush(done, current, spot), current, spot, FALSE)

LayoutEvent ==
    /\ mounted
    /\ layoutDue
    /\ Apply(measureTipHandler(O, TipSizeOf(tourStep[1])))
    /\ event' = Ev("layout", "none")
    /\ UNCHANGED <<status, current, spot, seq, cont, vw>>

\* lines 226-229: the deferred callback: setTipStyle(undefined); moveIn.start().
\* A callback whose component state was dropped sets a state nobody reads and
\* animates detached values.
timeoutCallback(o) ==
    LET t == Head(o.timers)
        rest == [o EXCEPT !.timers = Tail(@)]
    IN  IF t.orphan THEN rest
        ELSE LET cleared == IF rest.tipStyle = None THEN rest
                            ELSE Render(Flush([rest EXCEPT !.tipStyle = None],
                                              current, spot),
                                        current, spot, FALSE)
             IN  [StopAnim(cleared, "superseded") EXCEPT
                    !.anim = [kind |-> "reveal", to |-> Some(t.to)]]

TimerFire ==
    /\ timers # <<>>
    /\ event' = Ev("timer", IF Head(timers).orphan THEN "orphan" ELSE "start")
    /\ Apply(timeoutCallback(O))
    /\ UNCHANGED <<status, current, spot, seq, cont, vw>>

\* The animation that holds the values runs to its end: a fade-out reports
\* { finished: true }.
AnimFinish ==
    /\ anim.kind # "none"
    /\ anim' = NoAnim
    /\ hide' = IF anim.kind = "hide" THEN Settle(TRUE, "completed") ELSE hide
    /\ event' = Ev("animated", "none")
    /\ UNCHANGED <<status, current, spot, seq, cont, vw, mounted, tourStep, tipStyle,
                   geom, effectDue, timers, layoutDue, laidSize>>

Init ==
    /\ status = "IDLE"
    /\ current = None
    /\ spot = None
    /\ seq = "IDLE"
    /\ cont \in BOOLEAN
    /\ vw = 360
    /\ mounted = FALSE
    /\ tourStep = None
    /\ tipStyle = None
    /\ geom = None
    /\ effectDue = FALSE
    /\ timers = <<>>
    /\ anim = NoAnim
    /\ hide = NoHide
    /\ layoutDue = FALSE
    /\ laidSize = None
    /\ event = Ev("init", "none")

Next ==
    \/ \E i \in 0..Last : start(i)
    \/ next
    \/ previous
    \/ stop
    \/ HideSettled
    \/ MeasureResolve
    \/ BackdropPress
    \/ RunEffect
    \/ LayoutEvent
    \/ TimerFire
    \/ AnimFinish

Spec == Init /\ [][Next]_vars

(***************************************************************************)
(* The placement as a function of its inputs: a mounted overlay with any   *)
(* spot, step configuration and viewport width, whose tooltip reports any  *)
(* size.                                                                   *)
(***************************************************************************)
BorderProps == {None} \cup { Some(ShapeProps(b, None, None)) : b \in Opt(0..MaxBorder) }
AllProps ==
    {None} \cup { Some(ShapeProps(b, h, v)) :
                    b \in Opt(0..MaxBorder), h \in Opt(0..MaxRadius),
                    v \in Opt(0..MaxRadius) }

PlacementSteps ==
    { Step(p, sh, a, "undefined", sp, 0) :
        p \in Positions, sh \in Shapes, a \in Aligns, sp \in BorderProps }
CutOutSteps ==
    { Step("BOTTOM", sh, "undefined", m, sp, 0) :
        sh \in Shapes, m \in Motions, sp \in AllProps }

\* A mounted overlay after its first render: the tooltip has not reported its
\* layout yet.
InitMounted(steps, spots) ==
    /\ status = "RUNNING"
    /\ current = Some(0)
    /\ spot \in { Some(sp) : sp \in spots }
    /\ seq = "SETTLED"
    /\ cont = FALSE
    /\ mounted = TRUE
    /\ tourStep \in { Some(st) : st \in steps }
    /\ tipStyle = None
    /\ geom = Some(CutOut(spot[1], tourStep[1]))
    /\ effectDue = FALSE
    /\ timers = <<>>
    /\ anim = NoAnim
    /\ hide = NoHide
    /\ layoutDue = TRUE
    /\ laidSize = None
    /\ event = Ev("init", "none")

InitPlacement == InitMounted(PlacementSteps, Spots) /\ vw \in Widths

\* onLayout with any size.
Layout(size) ==
    /\ layoutDue
    /\ Apply(measureTipHandler(O, size))
    /\ event' = Ev("layout", "none")
    /\ UNCHANGED <<status, current, spot, seq, cont, vw>>

NextPlacement == \E size \in TipSizes : Layout(size)

SpecPlacement == InitPlacement /\ [][NextPlacement]_vars

(***************************************************************************)
(* The cut-out as a function of its inputs: a mounted overlay with any     *)
(* step configuration, whose spot is replaced by any rectangle.            *)
(***************************************************************************)
InitCutOut == InitMounted(CutOutSteps, {Rect(0, 0, 0, 0)}) /\ vw = 360

\* The tour hands the overlay a new spot: the body is evaluated again.
Remeasure(sp) ==
    /\ ~effectDue
    /\ spot' = Some(sp)
    /\ Apply(Rerender(O, current, Some(sp)))
    /\ event' = Ev("measured", "none")
    /\ UNCHANGED <<status, current, seq, cont, vw>>

NextCutOut == \E sp \in Spots : Remeasure(sp)

SpecCutOut == InitCutOut /\ [][NextCutOut]_vars

(***************************************************************************)
(* The claims.  Table values are written out here in parts (1/Unit dp),    *)
(* apart from the operators above.                                         *)
(***************************************************************************)
\* n is an integer nearest to the length v (in parts).
Nearest(n, v) == 2 * Abs(Unit * n - v) <= Unit

TableR(sp) == (Unit * Max(sp.width, sp.height) * 115) \div 200
TableCx(sp) == (Unit * (2 * sp.x + sp.width)) \div 2
TableCy(sp) == (Unit * (2 * sp.y + sp.height)) \div 2
TableGiven(st, field) ==
    IF st.shapeProperties = None THEN 0
    ELSE IF st.shapeProperties[1][field] = None THEN 0
    ELSE st.shapeProperties[1][field][1]
TableBorder(st) == TableGiven(st, "borderWidth")
TableAlign(st) == IF st.alignTo = "CENTER" THEN "CENTER" ELSE "SPOT"
TableShape(st) == IF st.shape = "RECTANGLE" THEN "RECTANGLE" ELSE "SPOTLIGHT"

SpotlightTableLeft(sp, st, tip, W) ==
    CASE st.position = "LEFT" -> TableCx(sp) - TableR(sp) - Unit * tip.width
      [] st.position = "RIGHT" -> TableCx(sp) + TableR(sp)
      [] OTHER -> IF TableAlign(st) = "SPOT"
                  THEN TableCx(sp) - (Unit * tip.width) \div 2
                  ELSE (Unit * (W - tip.width)) \div 2

SpotlightTableTop(sp, st, tip) ==
    CASE st.position = "BOTTOM" -> TableCy(sp) + TableR(sp)
      [] st.position = "TOP" -> TableCy(sp) - TableR(sp) - Unit * tip.height
      [] OTHER -> TableCy(sp) - (Unit * tip.height) \div 2

RectTableLeft(sp, st, tip, W) ==
    LET b == TableBorder(st) IN
    CASE st.position = "LEFT" -> Unit * (sp.x - b) - Unit * tip.width
      [] st.position = "RIGHT" -> Unit * (sp.x - b) + Unit * (sp.width + 2 * b)
      [] OTHER -> IF TableAlign(st) = "SPOT"
                  THEN TableCx(sp) - (Unit * tip.width) \div 2
                  ELSE (Unit * (W - tip.width)) \div 2

RectTableTop(sp, st, tip) ==
    LET b == TableBorder(st) IN
    CASE st.position = "BOTTOM" -> Unit * (sp.y - b) + Unit * (sp.height + 2 * b)
      [] st.position = "TOP" -> Unit * (sp.y - b) - Unit * tip.height - Unit * 10
      [] OTHER -> TableCy(sp) - (Unit * tip.height) \div 2

Placed == mounted /\ tipStyle # None /\ laidSize # None

IsExample ==
    /\ Placed
    /\ spot = Some(ExampleSpot)
    /\ laidSize = Some(ExampleTip)
    /\ vw = 360
    /\ tourStep[1].position = "BOTTOM"
    /\ TableShape(tourStep[1]) = "SPOTLIGHT"
    /\ TableAlign(tourStep[1]) = "SPOT"

\* C1: with shape SPOTLIGHT the layout callback sets left/top to the values of
\* the spotlight table of section 4.3 rounded to the nearest integer, with the
\* 2% margin on the side facing the spot; the worked example gives left = 65
\* and top = 253.75 before rounding.
C1_SpotlightPlacement ==
    (Placed /\ TableShape(tourStep[1]) = "SPOTLIGHT") =>
        LET sp == spot[1]
            st == tourStep[1]
            tip == laidSize[1]
            ty == tipStyle[1]
        IN  /\ Nearest(ty.left, SpotlightTableLeft(sp, st, tip, vw))
            /\ Nearest(ty.top, SpotlightTableTop(sp, st, tip))
            /\ ty.margin = 2 /\ ty.marginUnit = "%"
            /\ IsExample =>
                /\ TableR(sp) * 4 = 115 * Unit
                /\ SpotlightTableLeft(sp, st, tip, vw) = 65 * Unit
                /\ SpotlightTableTop(sp, st, tip) * 4 = 1015 * Unit
                /\ ty.left = 65
                /\ ty.top = 254

C1_Witness == IsExample

\* C2: with shape RECTANGLE the layout callback sets left/top to the values of
\* the rectangle table of section 4.3, each evaluated on the unrounded
\* rectangle and its unrounded centre and rounded once, with the 10-unit margin.
C2_RectanglePlacement ==
    (Placed /\ TableShape(tourStep[1]) = "RECTANGLE") =>
        LET sp == spot[1]
            st == tourStep[1]
            tip == laidSize[1]
            ty == tipStyle[1]
        IN  /\ Nearest(ty.left, RectTableLeft(sp, st, tip, vw))
            /\ Nearest(ty.top, RectTableTop(sp, st, tip))
            /\ ty.margin = 10 /\ ty.marginUnit = "dp"

\* C3: the circle has r = max(width, height)/2 * 1.15 and the centre of the
\* spot; the rectangle is the spot grown by borderWidth on every side, with
\* the two radii passed through; absent shapeProperties count as zeros.
C3_CutOutGeometry ==
    geom # None =>
        LET sp == spot[1]
            g == geom[1]
            b == TableGiven(tourStep[1], "borderWidth")
            h == TableGiven(tourStep[1], "horizontalRadius")
            v == TableGiven(tourStep[1], "verticalRadius")
        IN  /\ 200 * g.r = Unit * Max(sp.width, sp.height) * 115
            /\ 2 * g.cx = Unit * (2 * sp.x + sp.width)
            /\ 2 * g.cy = Unit * (2 * sp.y + sp.height)
            /\ g.rectWidth = Unit * (sp.width + 2 * b)
            /\ g.rectHeight = Unit * (sp.height + 2 * b)
            /\ g.rectX = Unit * (sp.x - b)
            /\ g.rectY = Unit * (sp.y - b)
            /\ g.rx = h
            /\ g.ry = v

C3_Witness ==
    /\ geom # None
    /\ tourStep[1].shapeProperties # None
    /\ TableGiven(tourStep[1], "borderWidth") > 0
    /\ tourStep[1].shapeProperties[1].horizontalRadius = Some(1)
    /\ tourStep[1].shapeProperties[1].verticalRadius = None
    /\ spot[1].width # spot[1].height

\* C4 as stated: the four corners of every spot lie inside or on the circle.
C4_CornersCleared ==
    geom # None =>
        LET sp == spot[1]
            g == geom[1]
        IN  (Unit * sp.width) * (Unit * sp.width) + (Unit * sp.height) * (Unit * sp.height)
                <= 4 * g.r * g.r

\* C4 amended: the circle holds the midpoints of the four sides of every spot,
\* and it holds the four corners exactly when
\* width^2 + height^2 <= 1.3225 * max(width, height)^2; the corners of a
\* square spot of positive size lie outside it.
C4_CornersClearedWhenOblong ==
    geom # None =>
        LET sp == spot[1]
            g == geom[1]
            m == Max(sp.width, sp.height)
            corners ==
                (Unit * sp.width) * (Unit * sp.width)
                    + (Unit * sp.height) * (Unit * sp.height) <= 4 * g.r * g.r
        IN  /\ Unit * sp.width <= 2 * g.r
            /\ Unit * sp.height <= 2 * g.r
            /\ corners <=>
                10000 * (sp.width * sp.width + sp.height * sp.height) <= 13225 * m * m
            /\ (sp.width = sp.height /\ sp.width > 0) => ~corners

C4_Witness ==
    /\ geom # None
    /\ spot[1].width = 2
    /\ spot[1].height = 1

\* C5: a backdrop tap calls nothing and changes nothing when
\* shouldContinueOnBackdropPress is false; when it is true it calls stop() at
\* the last index and next() elsewhere, the tour ends at the last index, and
\* current stays within 0..steps.length-1 while the tour runs.
C5_BackdropTap ==
    [][ event'.name = "tap" =>
          /\ ~cont =>
                /\ event'.called = "none"
                /\ UNCHANGED <<status, current, spot, seq, mounted, tourStep, tipStyle,
                               geom, effectDue, timers, anim, hide, layoutDue, laidSize>>
          /\ (cont /\ current = Some(Last)) =>
                /\ event'.called = "stop"
                /\ status' = "STOPPED"
                /\ current' = None
          /\ (cont /\ current # Some(Last)) =>
                /\ event'.called = "next"
                /\ status' = "RUNNING"
                /\ current' = Some(current[1] + 1)
          /\ status' = "RUNNING" => (current' # None /\ current'[1] \in 0..Last)
      ]_vars

C5_Witness == cont /\ event = Ev("tap", "stop") /\ status = "STOPPED"

\* C6: the promise of hideTip() is resolved only by a fade-out that reported
\* finished; an interrupted or cancelled fade-out never resolves it.
C6_ResolveOnlyWhenFinished ==
    /\ hide.outcome = "resolved" => hide.finished
    /\ hide.cause \in {"superseded", "stop"} => hide.outcome # "resolved"

C6_Witness ==
    /\ hide.cause = "superseded"
    /\ ~hide.finished
    /\ hide.outcome # "resolved"

\* C7: a fade-out cancelled by a later animation or by stop() does not reject
\* the promise of hideTip().
C7_CancelIsNotFailure ==
    hide.cause \in {"superseded", "stop"} => hide.outcome # "rejected"

Settled ==
    /\ mounted
    /\ seq = "SETTLED"
    /\ ~effectDue
    /\ ~layoutDue
    /\ \A i \in DOMAIN timers : timers[i].orphan
    /\ anim.kind = "none"

\* C8: when a step change has run its course (no effect, deferred callback,
\* layout callback or animation outstanding) the tooltip placement is the one
\* computed from the new spot and the new tooltip size.
C8_FinalPlacement ==
    Settled =>
        tipStyle = Some(measureTip(spot[1], Steps(current[1]),
                                   TipSizeOf(Steps(current[1])), vw))

\* C9: at most one reveal is pending or running, and no deferred callback of
\* a stopped tour starts its move-in.
C9_NoOverlappingTransitions ==
    /\ Len(timers) + (IF anim.kind = "reveal" THEN 1 ELSE 0) <= 1
    /\ event # Ev("timer", "orphan")

\* C10: whenever the overlay is rendered, the step it uses is steps[current].
C10_StepMatchesIndex ==
    mounted => tourStep = Some(Steps(current[1]))

====
